---- MODULE Spec2Model ----
(***************************************************************************)
(* Model of the Swolez product-catalog backend (src/main.py,               *)
(* src/schemas.py).  One action per HTTP endpoint; the request validation  *)
(* that FastAPI/pydantic performs from the handlers' type annotations is   *)
(* part of the endpoint's action.                                          *)
(*                                                                         *)
(* Units: prices are whole dollars, ratings are tenths of a star           *)
(* (4.6 is 46, the upper bound 5 is 50).  A text that may be a URL is a    *)
(* sequence of tokens <<scheme, "://", host, path>>.  An Optional value is *)
(* a set with at most one element ({} is None).                            *)
(***************************************************************************)
EXTENDS Integers, Sequences, FiniteSets, TLC

VARIABLES db, product, request, response, storeOps, nreq

vars == <<db, product, request, response, storeOps, nreq>>

\* ---------------------------------------------------------------- bounds
MaxRequests == 3
MaxCount == 8
MaxCollections == 11

\* ------------------------------------------------------------- schemas.py
Categories == {"tops", "bottoms", "hoodies", "accessories"}

Lines == {"gymwear", "streetwear"}

Sizes == {"XS", "S", "M", "L", "XL", "XXL"}

RatingMax == 50

PriceMin == 0

RatingMin == 0

TheValue(opt) == CHOOSE x \in opt : TRUE

Get(raw, f, default) == IF f \in DOMAIN raw THEN raw[f] ELSE default

With(raw, f, v) == [k \in DOMAIN raw \cup {f} |-> IF k = f THEN v ELSE raw[k]]

Without(raw, f) == [k \in DOMAIN raw \ {f} |-> raw[k]]

AllIn(seq, S) == \A i \in 1..Len(seq) : seq[i] \in S

\* HttpUrl accepts exactly the texts scheme://host[path] with an http(s) scheme.
IsHttpUrlAnyScheme(t) ==
    /\ Len(t) >= 3
    /\ t[2] = "://"
    /\ t[3] # ""

IsHttpUrl(t) ==
    /\ Len(t) >= 3
    /\ t[1] \in {"http", "https"}
    /\ t[2] = "://"
    /\ t[3] # ""

\* The parsed URL; an empty path is normalised to "/".
ParseUrl(t) ==
    [scheme |-> t[1], host |-> t[3], path |-> IF Len(t) >= 4 THEN t[4] ELSE "/"]

UrlText(u) == <<u.scheme, "://", u.host, u.path>>

\* ProductCreate: the relaxed write schema.
ValidProductCreateNoCategory(raw) ==
    /\ {"title", "price", "category", "line"} \subseteq DOMAIN raw
    /\ raw.line \in Lines
    /\ AllIn(Get(raw, "sizes", <<>>), Sizes)

ValidProductCreate(raw) ==
    /\ {"title", "price", "category", "line"} \subseteq DOMAIN raw
    /\ raw.category \in Categories
    /\ raw.line \in Lines
    /\ AllIn(Get(raw, "sizes", <<>>), Sizes)

ProductCreateModel(raw) ==
    [title       |-> raw.title,
     description |-> Get(raw, "description", {}),
     price       |-> raw.price,
     category    |-> raw.category,
     line        |-> raw.line,
     images      |-> Get(raw, "images", <<>>),
     colors      |-> Get(raw, "colors", <<>>),
     sizes       |-> Get(raw, "sizes", <<>>),
     in_stock    |-> Get(raw, "in_stock", TRUE),
     featured    |-> Get(raw, "featured", FALSE),
     rating      |-> Get(raw, "rating", {}),
     tags        |-> Get(raw, "tags", <<>>)]

\* Product: the strict schema of the "product" collection.
ValidProduct(d) ==
    /\ {"title", "price", "category", "line"} \subseteq DOMAIN d
    /\ d.price >= PriceMin
    /\ d.category \in Categories
    /\ d.line \in Lines
    /\ \A i \in 1..Len(Get(d, "images", <<>>)) : IsHttpUrl(d.images[i])
    /\ AllIn(Get(d, "sizes", <<>>), Sizes)
    /\ \A r \in Get(d, "rating", {}) : RatingMin <= r /\ r <= RatingMax

\* The validated Product as it is serialised into the response.
ProductModel(d) ==
    [title       |-> d.title,
     description |-> Get(d, "description", {}),
     price       |-> d.price,
     category    |-> d.category,
     line        |-> d.line,
     images      |-> [i \in 1..Len(Get(d, "images", <<>>)) |-> UrlText(ParseUrl(d.images[i]))],
     colors      |-> Get(d, "colors", <<>>),
     sizes       |-> Get(d, "sizes", <<>>),
     in_stock    |-> Get(d, "in_stock", TRUE),
     featured    |-> Get(d, "featured", FALSE),
     rating      |-> Get(d, "rating", {}),
     tags        |-> Get(d, "tags", <<>>)]

\* ------------------------------------------------- document store adapter
\* str(ObjectId): the hexadecimal rendering of the store-assigned identifier.
RECURSIVE IdStr(_)
IdStr(n) == IF n < 16 THEN <<n>> ELSE IdStr(n \div 16) \o <<n % 16>>

\* insert(collection, record) -> identifier
create_document(coll, data) ==
    LET oid == Len(coll) + 1
    IN  [coll |-> Append(coll, With(data, "_id", oid)), id |-> IdStr(oid)]

Matches(d, query) == \A k \in DOMAIN query : k \in DOMAIN d /\ d[k] = query[k]

\* query(collection, filter) -> the matching records, in insertion order
get_documents(coll, query) == SelectSeq(coll, LAMBDA d : Matches(d, query))

\* ---------------------------------------------------------------- main.py
ErrorMsgMax == 80

CollectionsMax == 10

DefaultCount == 6

Min(a, b) == IF a < b THEN a ELSE b

Max(a, b) == IF a > b THEN a ELSE b

\* db is None
DbIsNoneNever(handle) == FALSE

DbIsNone(handle) == handle = "unset"

\* Python's seq[:n]
PySliceToInclusive(seq, n) ==
    SubSeq(seq, 1, IF n < 0 THEN Max(Len(seq) + n + 1, 0) ELSE Min(n + 1, Len(seq)))

PySliceTo(seq, n) ==
    SubSeq(seq, 1, IF n < 0 THEN Max(Len(seq) + n, 0) ELSE Min(n, Len(seq)))

Unsplash(photo) == <<"https", "://", "images.unsplash.com", photo>>

sample ==
    << [title |-> "Swolez Power Tee",
        description |-> {"Breathable performance tee with four-way stretch"},
        price |-> 28, category |-> "tops", line |-> "gymwear",
        images |-> <<Unsplash("/photo-1592878849127-30a153c9fd1f")>>,
        colors |-> <<"black", "white", "charcoal">>,
        sizes |-> <<"S", "M", "L", "XL">>,
        in_stock |-> TRUE, featured |-> TRUE, rating |-> {46},
        tags |-> <<"tee", "gym", "stretch">>],
       [title |-> "Swolez Street Hoodie",
        description |-> {"Heavyweight fleece with minimalist embroidery"},
        price |-> 64, category |-> "hoodies", line |-> "streetwear",
        images |-> <<Unsplash("/photo-1548883354-7622d03aca9b")>>,
        colors |-> <<"ash", "black", "forest">>,
        sizes |-> <<"M", "L", "XL", "XXL">>,
        in_stock |-> TRUE, featured |-> TRUE, rating |-> {48},
        tags |-> <<"hoodie", "street", "fleece">>],
       [title |-> "Swolez Flex Joggers",
        description |-> {"Tapered athletic fit with zip pockets"},
        price |-> 49, category |-> "bottoms", line |-> "gymwear",
        images |-> <<Unsplash("/photo-1559631688-59c1ff16398d")>>,
        colors |-> <<"black", "navy">>,
        sizes |-> <<"S", "M", "L", "XL">>,
        in_stock |-> TRUE, featured |-> FALSE, rating |-> {45},
        tags |-> <<"joggers", "zip", "athletic">>],
       [title |-> "Swolez Cargo Pants",
        description |-> {"Relaxed cargo with reinforced knees"},
        price |-> 59, category |-> "bottoms", line |-> "streetwear",
        images |-> <<Unsplash("/photo-1539533018447-62fc810b90d9")>>,
        colors |-> <<"khaki", "black">>,
        sizes |-> <<"S", "M", "L", "XL", "XXL">>,
        in_stock |-> TRUE, featured |-> FALSE, rating |-> {44},
        tags |-> <<"cargo", "street">>],
       [title |-> "Swolez Lift Beanie",
        description |-> {"Rib-knit beanie with woven label"},
        price |-> 18, category |-> "accessories", line |-> "streetwear",
        images |-> <<Unsplash("/photo-1516571137133-1be29e37143a")>>,
        colors |-> <<"black", "oxblood">>,
        sizes |-> <<>>,
        in_stock |-> TRUE, featured |-> FALSE, rating |-> {42},
        tags |-> <<"beanie", "winter">>],
       [title |-> "Swolez Mesh Tank",
        description |-> {"Ultra-light mesh for max airflow"},
        price |-> 24, category |-> "tops", line |-> "gymwear",
        images |-> <<Unsplash("/photo-1540573133985-87b6da6d54a9")>>,
        colors |-> <<"white", "black">>,
        sizes |-> <<"S", "M", "L">>,
        in_stock |-> TRUE, featured |-> FALSE, rating |-> {43},
        tags |-> <<"tank", "mesh", "breathable">>] >>

\* The loop of seed_products: one insert per item, counting as it goes.
RECURSIVE SeedLoopCountOnce(_, _, _)
SeedLoopCountOnce(items, coll, created) ==
    IF items = <<>> THEN [coll |-> coll, created |-> created]
    ELSE [coll |-> SeedLoopCountOnce(Tail(items), create_document(coll, Head(items)).coll, created).coll,
          created |-> 1]

RECURSIVE SeedLoop(_, _, _)
SeedLoop(items, coll, created) ==
    IF items = <<>> THEN [coll |-> coll, created |-> created]
    ELSE SeedLoop(Tail(items), create_document(coll, Head(items)).coll, created + 1)

\* SeedRequest: count is an integer, 6 when omitted.
\* A JSON value is given by its reading as an integer, {} when it has none.
ValidSeedRequest(body) == "count" \in DOMAIN body => body.count # {}

SeedRequestModel(body) ==
    [count |-> IF "count" \in DOMAIN body THEN TheValue(body.count) ELSE DefaultCount]

\* FastAPI's parsing of a bool query parameter.
ValidBoolParam(s) ==
    s \in {"true", "false", "1", "0", "yes", "no", "on", "off", "t", "f", "y", "n"}

BoolParam(s) == s \in {"true", "1", "yes", "on", "t", "y"}

\* A str parameter is truthy unless it is None or empty.
Truthy(opt) == opt # {} /\ opt # {""}

\* The filter mapping list_products builds from its parameters.
BuildQueryAllSupplied(line, category, featured) ==
    [k \in (IF line # {} THEN {"line"} ELSE {})
           \cup (IF category # {} THEN {"category"} ELSE {})
           \cup (IF featured # {} THEN {"featured"} ELSE {})
       |-> CASE k = "line" -> TheValue(line)
             [] k = "category" -> TheValue(category)
             [] k = "featured" -> TheValue(featured)]

BuildQuery(line, category, featured) ==
    [k \in (IF Truthy(line) THEN {"line"} ELSE {})
           \cup (IF Truthy(category) THEN {"category"} ELSE {})
           \cup (IF featured # {} THEN {"featured"} ELSE {})
       |-> CASE k = "line" -> TheValue(line)
             [] k = "category" -> TheValue(category)
             [] k = "featured" -> TheValue(featured)]

StripId(d) == Without(d, "_id")

\* ----------------------------------------------------------------- inputs
MinimalRaw == [title |-> "Tee", price |-> 10, category |-> "tops", line |-> "gymwear"]

FullRaw ==
    [title |-> "Hoodie", description |-> {"Warm"}, price |-> 0,
     category |-> "hoodies", line |-> "streetwear",
     images |-> << <<"http", "://", "cdn.example">> >>, colors |-> <<"ash">>,
     sizes |-> <<"M", "XXL">>, in_stock |-> FALSE, featured |-> TRUE,
     rating |-> {RatingMax}, tags |-> <<"street">>]

RawProducts ==
    { MinimalRaw,
      FullRaw,
      With(MinimalRaw, "category", "shoes"),
      With(MinimalRaw, "line", "casual"),
      With(MinimalRaw, "sizes", <<"M", "XXXL">>),
      Without(MinimalRaw, "title"),
      With(MinimalRaw, "price", -1),
      With(MinimalRaw, "rating", {RatingMax + 1}),
      With(MinimalRaw, "images", << <<"not a url">> >>),
      With(FullRaw, "images", << <<"ftp", "://", "files.example", "/a.png">> >>) }

SeedBodies ==
    {<<>>, [count |-> {}]} \cup {[count |-> {n}] : n \in (-MaxCount)..MaxCount}

LineParams == {{}, {""}, {"gymwear"}}

CategoryParams == {{}, {"hoodies"}, {"shoes"}}

FeaturedParams == {{}, {"true"}, {"false"}, {"maybe"}}

\* What db.list_collection_names() does: it raises with a message of some
\* length, or returns the names of the collections.
NoListing == [raises |-> FALSE, message |-> 0, names |-> <<>>]

ListingOutcomes ==
    {[raises |-> TRUE, message |-> m, names |-> <<>>] : m \in {12, 200}}
    \cup {[raises |-> FALSE, message |-> 0, names |-> [i \in 1..n |-> i]] :
             n \in 0..MaxCollections}

\* ------------------------------------------------------------ the machine
Init ==
    /\ db \in {"unset", "set"}
    /\ product = <<>>
    /\ request = [endpoint |-> "none"]
    /\ response = [status |-> 0]
    /\ storeOps = 0
    /\ nreq = 0

Served == nreq < MaxRequests /\ nreq' = nreq + 1

\* GET /
read_root ==
    /\ Served
    /\ request' = [endpoint |-> "root"]
    /\ response' = [status |-> 200, message |-> "Swolez backend running"]
    /\ storeOps' = 0
    /\ UNCHANGED <<db, product>>

\* GET /test
test_database ==
    /\ Served
    /\ LET base == [status |-> 200, backend |-> "Running",
                    database |-> "Not Available", database_detail |-> 0,
                    database_url |-> {}, database_name |-> {},
                    connection_status |-> "Not Connected",
                    collections |-> <<>>]
       IN  IF ~DbIsNone(db)
           THEN \E envUrl \in BOOLEAN, outcome \in ListingOutcomes :
                  LET set1 == [base EXCEPT !.database = "Available",
                                           !.database_url = {IF envUrl THEN "Set" ELSE "Not Set"},
                                           !.database_name = {"name"},
                                           !.connection_status = "Connected"]
                  IN  /\ request' = [endpoint |-> "test", listing |-> outcome]
                      /\ storeOps' = 1
                      /\ response' =
                           IF outcome.raises
                           THEN [set1 EXCEPT !.database = "Connected but Error",
                                             !.database_detail = Min(outcome.message, ErrorMsgMax)]
                           ELSE [set1 EXCEPT !.collections = PySliceTo(outcome.names, CollectionsMax),
                                             !.database = "Connected & Working"]
           ELSE /\ request' = [endpoint |-> "test", listing |-> NoListing]
                /\ storeOps' = 0
                /\ response' = [base EXCEPT !.database = "Available but not initialized"]
    /\ UNCHANGED <<db, product>>

\* GET /api/products
list_products ==
    /\ Served
    /\ \E line \in LineParams, category \in CategoryParams, featured \in FeaturedParams :
         /\ request' = [endpoint |-> "list", line |-> line, category |-> category,
                        featured |-> featured]
         /\ IF \E f \in featured : ~ValidBoolParam(f)
            THEN /\ response' = [status |-> 422, detail |-> "featured"]
                 /\ storeOps' = 0
            ELSE IF DbIsNone(db)
            THEN /\ response' = [status |-> 500, detail |-> "Database not configured"]
                 /\ storeOps' = 0
            ELSE LET query == BuildQuery(line, category, {BoolParam(f) : f \in featured})
                     docs == get_documents(product, query)
                     ds == [i \in 1..Len(docs) |-> StripId(docs[i])]
                 IN  /\ storeOps' = 1
                     /\ response' =
                          IF \A i \in 1..Len(ds) : ValidProduct(ds[i])
                          THEN [status |-> 200,
                                body |-> [i \in 1..Len(ds) |-> ProductModel(ds[i])]]
                          ELSE [status |-> 500, detail |-> "Internal Server Error"]
    /\ UNCHANGED <<db, product>>

\* POST /api/products
create_product ==
    /\ Served
    /\ \E raw \in RawProducts :
         /\ request' = [endpoint |-> "create", payload |-> raw]
         /\ IF ~ValidProductCreate(raw)
            THEN /\ response' = [status |-> 422, detail |-> "payload"]
                 /\ storeOps' = 0
                 /\ product' = product
            ELSE IF DbIsNone(db)
            THEN /\ response' = [status |-> 500, detail |-> "Database not configured"]
                 /\ storeOps' = 0
                 /\ product' = product
            ELSE LET r == create_document(product, ProductCreateModel(raw))
                 IN  /\ product' = r.coll
                     /\ storeOps' = 1
                     /\ response' = [status |-> 201, id |-> r.id]
    /\ UNCHANGED db

\* POST /api/seed
seed_products ==
    /\ Served
    /\ \E body \in SeedBodies :
         /\ request' = [endpoint |-> "seed", body |-> body]
         /\ IF ~ValidSeedRequest(body)
            THEN /\ response' = [status |-> 422, detail |-> "count"]
                 /\ storeOps' = 0
                 /\ product' = product
            ELSE IF DbIsNone(db)
            THEN /\ response' = [status |-> 500, detail |-> "Database not configured"]
                 /\ storeOps' = 0
                 /\ product' = product
            ELSE LET req == SeedRequestModel(body)
                     r == SeedLoop(PySliceTo(sample, req.count), product, 0)
                 IN  /\ product' = r.coll
                     /\ storeOps' = Len(r.coll) - Len(product)
                     /\ response' = [status |-> 200, created |-> r.created]
    /\ UNCHANGED db

Next ==
    \/ read_root
    \/ test_database
    \/ list_products
    \/ create_product
    \/ seed_products

Spec == Init /\ [][Next]_vars

\* ------------------------------------------------------------ properties
\* The parameters of a GET /api/products request as the caller supplied them.
FeaturedValid == \A f \in request.featured : ValidBoolParam(f)

SuppliedFilters ==
    BuildQueryAllSupplied(request.line, request.category,
                          {BoolParam(f) : f \in request.featured})

\* A response record b shows the stored document d (images are compared by
\* their number, the URL type re-renders their text).
SameRecord(b, d) ==
    /\ \A f \in DOMAIN d \ {"_id", "images"} : f \in DOMAIN b /\ b[f] = d[f]
    /\ Len(b.images) = Len(d.images)

\* C1: every record persisted in the product collection has its category and
\* line in their enumerations, a price >= 0 and a rating that is absent or
\* within [0, 5].
C1_PersistedRecordsSatisfyBounds ==
    \A i \in 1..Len(product) :
        /\ product[i].category \in {"tops", "bottoms", "hoodies", "accessories"}
        /\ product[i].line \in {"gymwear", "streetwear"}
        /\ product[i].price >= 0
        /\ \A r \in product[i].rating : 0 <= r /\ r <= 50

\* C2: a valid ProductCreate payload posted with the store configured gets
\* 201 and a non-empty identifier, and a GET /api/products whose filters
\* match a stored record succeeds and contains that record with its defaults.
C2_CreateThenListReturnsRecord ==
    /\ (request.endpoint = "create" /\ db = "set" /\ ValidProductCreate(request.payload))
         => (response.status = 201 /\ Len(response.id) > 0)
    /\ (request.endpoint = "list" /\ db = "set" /\ FeaturedValid)
         => \A i \in 1..Len(product) :
               Matches(product[i], SuppliedFilters)
                 => /\ response.status = 200
                    /\ \E j \in 1..Len(response.body) : SameRecord(response.body[j], product[i])

\* C3: with the store configured, GET /api/products returns exactly the
\* stored records that equal every supplied filter value, identifiers removed.
C3_ListReturnsExactlyMatching ==
    (request.endpoint = "list" /\ db = "set" /\ FeaturedValid)
      => /\ response.status = 200
         /\ LET expected == SelectSeq(product, LAMBDA d : Matches(d, SuppliedFilters))
            IN  /\ Len(response.body) = Len(expected)
                /\ \A i \in 1..Len(expected) :
                      /\ SameRecord(response.body[i], expected[i])
                      /\ "_id" \notin DOMAIN response.body[i]

\* C4: POST /api/products with a category outside the enumeration is rejected
\* with a validation error and leaves the product collection unchanged.
C4_BadCategoryRejected ==
    [][(request'.endpoint = "create"
          /\ "category" \in DOMAIN request'.payload
          /\ request'.payload.category \notin {"tops", "bottoms", "hoodies", "accessories"})
         => (response'.status = 422 /\ product' = product)]_vars

C4_Witness ==
    /\ request.endpoint = "create"
    /\ request.payload.category = "shoes"
    /\ response.status = 422
    /\ db = "set"
    /\ Len(product) > 0

\* C5: with the store configured, POST /api/seed with count = n >= 0 (6 when
\* omitted) appends exactly the first min(n, 6) sample entries in order and
\* returns created = min(n, 6).
C5_SeedInsertsFirstMinCount ==
    [][(request'.endpoint = "seed" /\ db = "set"
          /\ \A c \in Get(request'.body, "count", {6}) : c >= 0
          /\ Get(request'.body, "count", {6}) # {})
         => \A n \in Get(request'.body, "count", {6}) :
              LET k == IF n < 6 THEN n ELSE 6
              IN  /\ Len(product') = Len(product) + k
                  /\ SubSeq(product', 1, Len(product)) = product
                  /\ \A i \in 1..k : StripId(product'[Len(product) + i]) = sample[i]
                  /\ response'.status = 200
                  /\ response'.created = k]_vars

C5_Witness ==
    /\ request.endpoint = "seed"
    /\ \E n \in Get(request.body, "count", {}) : n > 6
    /\ response.status = 200
    /\ response.created = 6
    /\ Len(product) > 6

\* C6: for every integer count, negative ones included, POST /api/seed
\* inserts no more than count records (none for a count below zero) and no
\* more than the sample's length, and created is the number of records
\* inserted.
C6_SeedInsertsAtMostCount ==
    [][(request'.endpoint = "seed" /\ response'.status = 200)
         => \A n \in Get(request'.body, "count", {6}) :
              /\ Len(product') - Len(product) <= (IF n < 0 THEN 0 ELSE n)
              /\ Len(product') - Len(product) <= Len(sample)
              /\ response'.created = Len(product') - Len(product)]_vars

\* C7 as stated: with the store handle unset every request to the three data
\* endpoints ends with 500 and attempts no store operation.
C7_UnsetAlways500 ==
    (db = "unset" /\ request.endpoint \in {"list", "create", "seed"})
      => (response.status = 500 /\ storeOps = 0 /\ product = <<>>)

RequestPassesValidation ==
    CASE request.endpoint = "list" -> FeaturedValid
      [] request.endpoint = "create" -> ValidProductCreate(request.payload)
      [] request.endpoint = "seed" -> ValidSeedRequest(request.body)

\* C7 amended: with the store handle unset, a request to a data endpoint that
\* passes request validation ends with 500, one that fails it ends with 422,
\* and either way no store operation is attempted.
C7_UnsetValidated500 ==
    (db = "unset" /\ request.endpoint \in {"list", "create", "seed"})
      => /\ response.status = (IF RequestPassesValidation THEN 500 ELSE 422)
         /\ storeOps = 0
         /\ product = <<>>

C7_Witness ==
    /\ db = "unset"
    /\ request.endpoint = "create"
    /\ ValidProductCreate(request.payload)
    /\ response.status = 500
    /\ nreq = MaxRequests

\* C8: GET /test always answers 200 with the database field naming the
\* condition of the store and with at most the first 10 collection names.
C8_TestNeverFails ==
    request.endpoint = "test"
      => /\ response.status = 200
         /\ response.database =
              (IF db = "unset" THEN "Available but not initialized"
               ELSE IF request.listing.raises THEN "Connected but Error"
               ELSE "Connected & Working")
         /\ Len(response.collections) <= 10
         /\ \A i \in 1..Len(response.collections) :
               response.collections[i] = request.listing.names[i]
         /\ (db = "set" /\ ~request.listing.raises)
              => Len(response.collections) =
                   (IF Len(request.listing.names) < 10 THEN Len(request.listing.names) ELSE 10)

C8_Witness ==
    /\ request.endpoint = "test"
    /\ Len(request.listing.names) > 10
    /\ Len(response.collections) = 10
    /\ response.database = "Connected & Working"

\* C9: every record of a successful GET /api/products response has only
\* well-formed URLs in its images list.
C9_ListedImagesWellFormed ==
    (request.endpoint = "list" /\ response.status = 200)
      => \A i \in 1..Len(response.body) :
           \A j \in 1..Len(response.body[i].images) :
              LET t == response.body[i].images[j]
              IN  /\ Len(t) = 4
                  /\ t[1] \in {"http", "https"}
                  /\ t[2] = "://"
                  /\ t[3] # ""

C9_Witness ==
    /\ request.endpoint = "list"
    /\ response.status = 200
    /\ \E i \in 1..Len(response.body) : Len(response.body[i].images) > 0
    /\ \E i \in 1..Len(product) :
          \E j \in 1..Len(product[i].images) : product[i].images[j] = <<"not a url">>

\* C10 as stated: no handler performs more than one store operation while
\* serving a request.
C10_AtMostOneStoreOp == storeOps <= 1

\* C10 amended: every handler other than POST /api/seed performs at most one
\* store operation; POST /api/seed performs one insert per record it creates,
\* at most 6.
C10_OneStoreOpExceptSeed ==
    /\ request.endpoint # "seed" => storeOps <= 1
    /\ request.endpoint = "seed"
         => /\ storeOps <= 6
            /\ response.status = 200 => storeOps = response.created

C10_Witness ==
    /\ request.endpoint = "seed"
    /\ storeOps = 6
    /\ response.created = 6

====
